---- MODULE Spec2Model ----
(***************************************************************************)
(* Three-point circular arcs (trimesh/path/arc.py): the centre solver, the *)
(* discretizer, tangents, offset and the inverse reconstruction.           *)
(*                                                                         *)
(* Numbers.  The program computes in binary64.  The model computes in      *)
(* exact arithmetic: a number is an element a + b*sqrt(q) of a real        *)
(* quadratic field (a, b rationals, q a squarefree integer), which is      *)
(* closed under everything the solver does to points with rational         *)
(* coordinates.  A vector divided by a length is kept as the pair          *)
(* (v, n2) standing for v / sqrt(n2), so that normalising never leaves     *)
(* the field.  An angle produced by arccos is kept as its cosine and the   *)
(* side of pi it lies on; an angle produced by arctan2 as the direction    *)
(* it measures and the number of full turns added.  Where an angle is      *)
(* needed as a quantity (the facet count, the sample parameters) it is     *)
(* evaluated in fixed point, FP units to the radian.                       *)
(***************************************************************************)
EXTENDS Integers, Sequences, FiniteSets, TLC

(***************************************************************************)
(* Integers and rationals                                                  *)
(***************************************************************************)
Abs(n) == IF n < 0 THEN -n ELSE n

Sgn(n) == IF n < 0 THEN -1 ELSE IF n = 0 THEN 0 ELSE 1

Max(a, b) == IF a >= b THEN a ELSE b

Min(a, b) == IF a <= b THEN a ELSE b

RECURSIVE Gcd(_, _)
Gcd(a, b) == IF b = 0 THEN a ELSE Gcd(b, a % b)

\* floor(sqrt(n)) by bisection on [lo, hi)
RECURSIVE IsqrtIn(_, _, _)
IsqrtIn(n, lo, hi) ==
    IF hi - lo <= 1 THEN lo
    ELSE LET mid == (lo + hi) \div 2
         IN  IF mid * mid <= n THEN IsqrtIn(n, mid, hi) ELSE IsqrtIn(n, lo, mid)

Isqrt(n) == IsqrtIn(n, 0, 46341)

\* the largest s with s*s dividing n (n > 0), searched from i upward
RECURSIVE SqPartFrom(_, _)
SqPartFrom(n, i) ==
    IF i * i > n THEN 1
    ELSE IF n % (i * i) = 0 THEN i * SqPartFrom(n \div (i * i), i)
    ELSE SqPartFrom(n, i + 1)

SqPart(n) == SqPartFrom(n, 2)

\* a rational is <<numerator, denominator>> in lowest terms, denominator > 0
RatOver(n, d, g) ==
    IF d < 0 THEN <<(-n) \div g, (-d) \div g>> ELSE <<n \div g, d \div g>>

Rat(n, d) == RatOver(n, d, Gcd(Abs(n), Abs(d)))

R0 == <<0, 1>>

RNeg(x) == <<-x[1], x[2]>>

RAbs(x) == <<Abs(x[1]), x[2]>>

\* x + y over the common denominator x[2] * y[2] / g, g = gcd(x[2], y[2])
RAddOver(x, y, g) ==
    Rat(x[1] * (y[2] \div g) + y[1] * (x[2] \div g), (x[2] \div g) * y[2])

RAdd(x, y) == RAddOver(x, y, Gcd(x[2], y[2]))

RSub(x, y) == RAdd(x, RNeg(y))

\* x * y, cancelling g1 = gcd(x[1], y[2]) and g2 = gcd(y[1], x[2]) first
RMulOver(x, y, g1, g2) ==
    <<(x[1] \div g1) * (y[1] \div g2), (x[2] \div g2) * (y[2] \div g1)>>

RMul(x, y) == RMulOver(x, y, Gcd(x[1], y[2]), Gcd(y[1], x[2]))

RInv(x) == IF x[1] < 0 THEN <<-x[2], -x[1]>> ELSE <<x[2], x[1]>>

RSgn(x) == Sgn(x[1])

RLess(x, y) == RSgn(RSub(x, y)) < 0

\* floor(x * s) for a rational x >= 0 and a scale s = 10^k, digit by digit
RECURSIVE ScaleDigits(_, _, _, _)
ScaleDigits(acc, rem, d, s) ==
    IF s = 1 THEN acc
    ELSE ScaleDigits(acc * 10 + (rem * 10) \div d, (rem * 10) % d, d, s \div 10)

RFloorScaled(x, s) ==
    Sgn(x[1]) * ScaleDigits(Abs(x[1]) \div x[2], Abs(x[1]) % x[2], x[2], s)

(***************************************************************************)
(* Real numbers a + b*sqrt(q)                                              *)
(***************************************************************************)
\* resolution of a rounded value, used only where a result leaves the field
RoundDen == 1000

MkF(a, b, q) == IF b = R0 THEN [a |-> a, b |-> R0, q |-> 1] ELSE [a |-> a, b |-> b, q |-> q]

FR(r) == [a |-> r, b |-> R0, q |-> 1]

FI(n) == FR(<<n, 1>>)

F0 == FI(0)

F1 == FI(1)

FHalf == FR(<<1, 2>>)

IsRational(x) == x.b = R0

\* a rational close to sqrt(q): floor(sqrt(q) * s) / s
SqrtAt(q, s) == Rat(Isqrt(q * s * s), s)

\* s as fine as RoundDen, or as the integers allow
SqrtApprox(q) == SqrtAt(q, Min(RoundDen, Isqrt(2000000000 \div q)))

\* a rational close to x; x itself when x is rational
FRound(x) == RAdd(x.a, RMul(x.b, SqrtApprox(x.q)))

FNeg(x) == [a |-> RNeg(x.a), b |-> RNeg(x.b), q |-> x.q]

\* x and y lie in one field Q(sqrt(q))
SameField(x, y) == x.b = R0 \/ y.b = R0 \/ x.q = y.q

FieldOf(x, y) == IF x.b = R0 THEN y.q ELSE x.q

\* exact in a common field; otherwise y is rounded first
RECURSIVE FAdd(_, _)
FAdd(x, y) ==
    IF SameField(x, y) THEN MkF(RAdd(x.a, y.a), RAdd(x.b, y.b), FieldOf(x, y))
    ELSE FAdd(x, FR(FRound(y)))

FSub(x, y) == FAdd(x, FNeg(y))

\* (a + b*sqrt(q)) * (c + d*sqrt(q))
FMulIn(x, y, q) ==
    MkF(RAdd(RMul(x.a, y.a), RMul(RMul(x.b, y.b), <<q, 1>>)),
        RAdd(RMul(x.a, y.b), RMul(x.b, y.a)), q)

\* b*sqrt(q1) * d*sqrt(q2) = b*d*g * sqrt((q1/g) * (q2/g)), g = gcd(q1, q2)
FMulRoots(x, y, g) == MkF(R0, RMul(RMul(x.b, y.b), <<g, 1>>), (x.q \div g) * (y.q \div g))

\* exact in a common field and for two pure roots; otherwise y is rounded first
RECURSIVE FMul(_, _)
FMul(x, y) ==
    IF SameField(x, y) THEN FMulIn(x, y, FieldOf(x, y))
    ELSE IF x.a = R0 /\ y.a = R0 THEN FMulRoots(x, y, Gcd(x.q, y.q))
    ELSE FMul(x, FR(FRound(y)))

\* r < sqrt(q) (-1), r = sqrt(q) (0) or r > sqrt(q) (1), for a rational r >= 0
\* with integer part m, s being the integer part of sqrt(q)
CmpRootAt(r, q, m, s) ==
    IF m > s THEN 1 ELSE IF m < s THEN -1 ELSE Sgn(r[1] * r[1] - q * r[2] * r[2])

CmpRoot(r, q) == CmpRootAt(r, q, r[1] \div r[2], Isqrt(q))

\* the sign of a + b*sqrt(q)
FSgn(x) ==
    IF x.a = R0 THEN RSgn(x.b)
    ELSE IF x.b = R0 \/ RSgn(x.a) = RSgn(x.b) THEN RSgn(x.a)
    ELSE RSgn(x.a) * CmpRoot(RAbs(RMul(x.a, RInv(x.b))), x.q)

Lcm(a, b) == (a \div Gcd(a, b)) * b

\* the positive rational c with x = c * (a + b*sqrt(q)), a and b coprime
\* integers; l is the common denominator of x.a and x.b
FContentOver(x, l) ==
    Rat(Gcd(Abs(x.a[1]) * (l \div x.a[2]), Abs(x.b[1]) * (l \div x.b[2])), l)

FContent(x) == FContentOver(x, Lcm(x.a[2], x.b[2]))

\* (a - b*sqrt(q)) * n
FInvBy(a, b, q, n) == MkF(RMul(a, n), RNeg(RMul(b, n)), q)

\* 1 / (c * (a + b*sqrt(q))) = (a - b*sqrt(q)) / (c * (a*a - b*b*q))
FInvPrim(a, b, q, ic) ==
    FInvBy(a, b, q, RMul(ic, RInv(RSub(RMul(a, a), RMul(RMul(b, b), <<q, 1>>)))))

FInvOver(x, ic) == FInvPrim(RMul(x.a, ic), RMul(x.b, ic), x.q, ic)

FInv(x) == FInvOver(x, RInv(FContent(x)))

FDiv(x, y) == FMul(x, FInv(y))

FLess(x, y) == FSgn(FSub(x, y)) < 0

\* sqrt(n/d) = (sn / (sd * fd)) * sqrt(fn * fd), n = sn^2 * fn, d = sd^2 * fd
SqrtFree(sn, sd, fn, fd) ==
    IF fn * fd = 1 THEN FR(Rat(sn, sd)) ELSE MkF(R0, Rat(sn, sd * fd), fn * fd)

SqrtParts(r, sn, sd) == SqrtFree(sn, sd, r[1] \div (sn * sn), r[2] \div (sd * sd))

SqrtRat(r) == IF r[1] = 0 THEN F0 ELSE SqrtParts(r, SqPart(r[1]), SqPart(r[2]))

\* the square root of x >= 0: exact for a rational x, rounded otherwise
FSqrt(x) ==
    IF x.b = R0 THEN SqrtRat(x.a)
    ELSE FR(Rat(Isqrt(RFloorScaled(FRound(x), RoundDen * RoundDen)), RoundDen))

\* x in units of 1/s, rounded toward zero (s a power of ten)
FScaled(x, s) == RFloorScaled(FRound(x), s)

(***************************************************************************)
(* Vectors.  A point or vector is a sequence of 2 or 3 numbers.  A scaled  *)
(* vector [v, n2] stands for v / sqrt(n2); n2 = 0 is the result of         *)
(* dividing by a zero length (NaN in every component).                     *)
(***************************************************************************)
\* an operation applied to each coordinate
Map1(Op(_), v) ==
    IF Len(v) = 2 THEN <<Op(v[1]), Op(v[2])>> ELSE <<Op(v[1]), Op(v[2]), Op(v[3])>>

Map2(Op(_, _), u, v) ==
    IF Len(u) = 2 THEN <<Op(u[1], v[1]), Op(u[2], v[2])>>
    ELSE <<Op(u[1], v[1]), Op(u[2], v[2]), Op(u[3], v[3])>>

VAdd(u, v) == Map2(FAdd, u, v)

VSub(u, v) == Map2(FSub, u, v)

VScale(s, v) == Map1(LAMBDA x : FMul(s, x), v)

VNeg(v) == Map1(FNeg, v)

RECURSIVE VDotFrom(_, _, _)
VDotFrom(u, v, i) ==
    IF i > Len(u) THEN F0 ELSE FAdd(FMul(u[i], v[i]), VDotFrom(u, v, i + 1))

VDot(u, v) == VDotFrom(u, v, 1)

VNorm2(v) == VDot(v, v)

\* coordinate i of the cross product, j and k being the next two in cyclic order
CrossAt(u, v, j, k) == FSub(FMul(u[j], v[k]), FMul(u[k], v[j]))

VCross(u, v) == Map1(LAMBDA i : CrossAt(u, v, (i % 3) + 1, ((i + 1) % 3) + 1), <<1, 2, 3>>)

VZero(v) == \A i \in 1..Len(v) : v[i] = F0

Plain(v) == [v |-> v, n2 |-> F1]

IsNaN(sv) == sv.n2 = F0

SVNeg(sv) == [v |-> VNeg(sv.v), n2 |-> sv.n2]

\* np.cross of two scaled vectors
SVCross(a, b) == [v |-> VCross(a.v, b.v), n2 |-> FMul(a.n2, b.n2)]

\* np.dot of two scaled vectors
SVDot(a, b) == FDiv(VDot(a.v, b.v), FSqrt(FMul(a.n2, b.n2)))

\* component i of a scaled vector
SVComp(sv, i) == FDiv(sv.v[i], FSqrt(sv.n2))

(***************************************************************************)
(* Angles                                                                  *)
(***************************************************************************)
\* radians in fixed point: FP units to the radian
FP == 10000

\* np.pi in FP units
PiFP == 31416

TwoPiFP == 2 * PiFP

\* cos(x) * FP for 0 <= x <= PiFP / 2, by its Taylor series
RECURSIVE CosSeries(_, _, _)
CosSeries(term, xsq, k) ==
    IF term = 0 \/ k > 16 THEN 0
    ELSE term + CosSeries(-(((term * xsq) \div FP) \div (k * (k + 1))), xsq, k + 2)

CosFP(x) ==
    IF 2 * x > PiFP THEN -CosSeries(FP, ((PiFP - x) * (PiFP - x)) \div FP, 1)
    ELSE CosSeries(FP, (x * x) \div FP, 1)

\* the largest angle in lo..hi-1 whose cosine is at least c (cosine decreases)
RECURSIVE ArccosIn(_, _, _)
ArccosIn(c, lo, hi) ==
    IF hi - lo <= 1 THEN lo
    ELSE LET mid == (lo + hi) \div 2
         IN  IF CosFP(mid) >= c THEN ArccosIn(c, mid, hi) ELSE ArccosIn(c, lo, mid)

ArccosFP(c) == IF c >= FP THEN 0 ELSE IF c <= -FP THEN PiFP ELSE ArccosIn(c, 0, PiFP + 1)

\* An angle of [0, 2*pi] is [c, big]: arccos(c) when ~big, 2*pi - arccos(c)
\* when big (pi is kept with ~big).
MkAngle(c, big) == [c |-> c, big |-> big /\ c # FNeg(F1)]

Clip(x, lo, hi) == IF FLess(x, lo) THEN lo ELSE IF FLess(hi, x) THEN hi ELSE x

Arccos(x) == MkAngle(x, FALSE)

TwoPi == MkAngle(F1, TRUE)

TwoPiMinus(angle) == MkAngle(angle.c, ~angle.big)

\* below pi the angle falls as the cosine rises, above pi it rises with it
AngleLess(a, b) ==
    IF a.big # b.big THEN b.big
    ELSE FLess(IF a.big THEN a.c ELSE b.c, IF a.big THEN b.c ELSE a.c)

AngleCos(angle) == angle.c

AngleSin(angle) ==
    FMul(FI(IF angle.big THEN -1 ELSE 1), FSqrt(FSub(F1, FMul(angle.c, angle.c))))

\* the angle as a quantity, in FP units
AngleFP(angle) ==
    IF angle.big THEN TwoPiFP - ArccosFP(FScaled(angle.c, FP))
    ELSE ArccosFP(FScaled(angle.c, FP))

\* An angle made by arctan2 is [x, y, turns]: arctan2(y, x) + 2*pi*turns, with
\* (x, y) kept up to a positive factor.
\* where arctan2(y, x) lies: 0 in (-pi, 0), 1 at 0, 2 in (0, pi), 3 at pi
SectorOf(sx, sy) ==
    IF sy < 0 THEN 0 ELSE IF sy > 0 THEN 2 ELSE IF sx < 0 THEN 3 ELSE 1

Sector(x, y) == SectorOf(FSgn(x), FSgn(y))

Arctan2(y, x) == [x |-> x, y |-> y, turns |-> 0]

AddTurns(p, n) == [p EXCEPT !.turns = @ + n]

\* arctan2(p.y, p.x) against arctan2(r.y, r.x): -1 below, 0 equal, 1 above;
\* sp and sr are where the two lie
AtanCmpIn(p, r, sp, sr) ==
    IF sp # sr THEN Sgn(sp - sr)
    ELSE -FSgn(FSub(FMul(p.x, r.y), FMul(p.y, r.x)))

AtanCmp(p, r) == AtanCmpIn(p, r, Sector(p.x, p.y), Sector(r.x, r.y))

PolarCmp(p, r) == IF p.turns # r.turns THEN Sgn(p.turns - r.turns) ELSE AtanCmp(p, r)

PolarLess(p, r) == PolarCmp(p, r) < 0

PolarSame(p, r) == PolarCmp(p, r) = 0

(***************************************************************************)
(* Helpers and constants the module imports                                *)
(***************************************************************************)
\* tol.zero, as an angle: what arccos returns is "zero" up to this
TolZero == Arccos(FR(<<4, 5>>))

\* tol.merge: two points closer than this are the same point
TolMerge == FR(<<1, 100000>>)

\* res.seg_angle: the maximum angular step per facet, in radians
SegAngle == <<2, 25>>

\* res.seg_frac: the maximum facet length per unit of scale
SegFrac == <<1, 20>>

\* util.three_dimensionalize: (n,2) points get a zero z, and the flag says so
ThreeDimensionalize(points) ==
    LET is_2D == Len(points[1]) = 2
    IN  [is_2D |-> is_2D,
         points |-> IF is_2D
                    THEN << Append(points[1], F0), Append(points[2], F0),
                            Append(points[3], F0) >>
                    ELSE points]

\* A positive multiple of v (v # 0) with small coordinates: v times the least
\* common denominator of its coordinates' parts over the greatest common
\* divisor of their numerators.
RECURSIVE DenLcm(_, _)
DenLcm(v, i) ==
    IF i > Len(v) THEN 1 ELSE Lcm(Lcm(v[i].a[2], v[i].b[2]), DenLcm(v, i + 1))

RECURSIVE NumGcd(_, _)
NumGcd(v, i) ==
    IF i > Len(v) THEN 0
    ELSE Gcd(Gcd(Abs(v[i].a[1]), Abs(v[i].b[1])), NumGcd(v, i + 1))

Shorten(v) == VScale(FR(Rat(DenLcm(v, 1), NumGcd(v, 1))), v)

\* w over its length
Unitized(w) == [v |-> w, n2 |-> VNorm2(w)]

\* util.unitize, of one row: v / |v|, NaN for the zero vector
Unitize(sv) ==
    IF IsNaN(sv) THEN sv
    ELSE IF VZero(sv.v) THEN [v |-> sv.v, n2 |-> F0]
    ELSE Unitized(Shorten(sv.v))

\* np.linalg.norm of one row
VNorm(v) == FSqrt(VNorm2(v))

\* util.euclidean: the distance between two points
Euclidean(a, b) == VNorm(VSub(a, b))

\* intersections.line_line: the point where the lines origins[i] + s *
\* directions[i] meet; none when a direction is undefined, the lines are
\* parallel, or they are skew
\* from s on: origins[1] + s * u
LineLineAt(origin, u, s) == [intersects |-> TRUE, point |-> VAdd(origin, VScale(s, u))]

\* a coordinate in which n is not zero
Pivot(n) == CHOOSE i \in 1..Len(n) : n[i] # F0

\* s with w x v = s * n, read off coordinate i
Ratio(wv, n, i) == FDiv(wv[i], n[i])

\* from n = u x v and w = origins[2] - origins[1] on; the lines meet when w
\* lies in the plane of u and v, and then w x v is a multiple of n
LineLineIn(origin, u, v, n, w) ==
    IF VZero(n) \/ VDot(w, n) # F0
    THEN [intersects |-> FALSE, point |-> <<>>]
    ELSE LineLineAt(origin, u, Ratio(VCross(w, v), n, Pivot(n)))

LineLine(origins, directions) ==
    IF IsNaN(directions[1]) \/ IsNaN(directions[2])
    THEN [intersects |-> FALSE, point |-> <<>>]
    ELSE LineLineIn(origins[1], directions[1].v, directions[2].v,
                    VCross(directions[1].v, directions[2].v),
                    VSub(origins[2], origins[1]))

(***************************************************************************)
(* arc_center                                                              *)
(***************************************************************************)
NoError == "none"

DegenerateError == "Segments do not intersect!"

\* the midpoints taken a whole edge along: the edges' far ends
EdgeMidpointsWholeEdge(points, edge_direction) ==
    Map2(LAMBDA e, p : VAdd(e, p), edge_direction, SubSeq(points, 1, 2))

\* points[0:2] + edge_direction * .5
EdgeMidpoints(points, edge_direction) ==
    Map2(LAMBDA e, p : VAdd(VScale(FHalf, e), p), edge_direction, SubSeq(points, 1, 2))

\* unitize(np.cross(edge_direction[1], edge_direction[0]))
PlaneNormal(edge_direction) ==
    Unitize(SVCross(Plain(edge_direction[2]), Plain(edge_direction[1])))

\* unitize(np.cross(unitize(edge_direction), plane_normal)), row by row
VectorPerpendicular(edge_direction, plane_normal) ==
    Map1(LAMBDA e : Unitize(SVCross(Unitize(Plain(e)), plane_normal)), edge_direction)

\* abs(angle) > tol.zero and np.dot(edge_direction[0], edge_direction[1]) < 0.0
LargeArc(angle, edge_direction) ==
    /\ AngleLess(TolZero, angle)
    /\ FSgn(VDot(edge_direction[1], edge_direction[2])) < 0

\* large_arc * (np.pi * 2) + (large_arc * -2 + 1) * angle
SpanOf(angle, edge_direction) ==
    IF LargeArc(angle, edge_direction) THEN TwoPiMinus(angle) ELSE angle

\* the span, from angle = np.arccos(np.clip(np.dot(vector[0], vector[2]), -1, 1))
Span(vector, edge_direction) ==
    SpanOf(Arccos(Clip(SVDot(vector[1], vector[3]), FNeg(F1), F1)), edge_direction)

\* np.arctan2(y, x) + np.pi * 2 of a row: the scale of the row cancels
PolarAngle(row) ==
    IF IsNaN(row) THEN AddTurns(Arctan2(F0, F0), 1)
    ELSE AddTurns(Arctan2(row.v[2], row.v[1]), 1)

PolarAngles(vector) == Map1(PolarAngle, vector)

\* np.sort(angles[[0, 2]])
SortPair(a, b) == IF PolarLess(b, a) THEN <<b, a>> ELSE <<a, b>>

\* seq[0] < seq[1] < seq[2]
Ascending(seq) == \A i \in 1..(Len(seq) - 1) : PolarLess(seq[i], seq[i + 1])

\* pair[::step], step being 1 or -1
Strided(pair, step) == IF step = 1 THEN pair ELSE <<pair[2], pair[1]>>

\* the pair reversed when the middle angle is between, kept when it is not
AnglesOrderedInverted(angles, angles_sorted) ==
    Strided(angles_sorted,
        1 - (IF Ascending(<<angles_sorted[1], angles[2], angles_sorted[2]>>)
             THEN 1 ELSE 0) * 2)

\* reverse = angles_sorted[0] < angles[1] < angles_sorted[1];
\* angles_sorted[::(1 - int(not reverse) * 2)]
AnglesOrdered(angles, angles_sorted) ==
    Strided(angles_sorted,
        1 - (IF ~Ascending(<<angles_sorted[1], angles[2], angles_sorted[2]>>)
             THEN 1 ELSE 0) * 2)

AnglesSorted(angles) == AnglesOrdered(angles, SortPair(angles[1], angles[3]))

\* np.diff(points, axis=0)
EdgeDirection(points) == Map2(VSub, SubSeq(points, 2, 3), SubSeq(points, 1, 2))

\* unitize(points - center)
RadiusVectors(points, center) == Map1(LAMBDA p : Unitize(Plain(VSub(p, center))), points)

\* the dict arc_center returns
ArcResult(is_2D, points, edge_direction, plane_normal, center, vector) ==
    [center |-> SubSeq(center, 1, 3 - (IF is_2D THEN 1 ELSE 0)),
     radius |-> Euclidean(points[1], center),
     normal |-> plane_normal,
     span |-> Span(vector, edge_direction),
     angles |-> AnglesSorted(PolarAngles(vector))]

\* arc_center from the answer of line_line on
ArcFromIntersection(is_2D, points, edge_direction, plane_normal, ll) ==
    IF ~ll.intersects
    THEN [err |-> DegenerateError, result |-> <<>>]
    ELSE [err |-> NoError,
          result |-> ArcResult(is_2D, points, edge_direction, plane_normal, ll.point,
                               RadiusVectors(points, ll.point))]

\* arc_center from the plane normal on
ArcFromNormal(is_2D, points, edge_direction, plane_normal) ==
    ArcFromIntersection(is_2D, points, edge_direction, plane_normal,
        LineLine(EdgeMidpoints(points, edge_direction),
                 VectorPerpendicular(edge_direction, plane_normal)))

\* arc_center from the edge vectors on
ArcFromEdges(is_2D, points, edge_direction) ==
    ArcFromNormal(is_2D, points, edge_direction, PlaneNormal(edge_direction))

\* arc_center from the three-dimensional points on
ArcFromPoints(td) == ArcFromEdges(td.is_2D, td.points, EdgeDirection(td.points))

ArcCenter(points) == ArcFromPoints(ThreeDimensionalize(points))

(***************************************************************************)
(* discretize_arc                                                          *)
(***************************************************************************)
DivergenceError == "Arc endpoints diverging!"

RMax(x, y) == IF RLess(x, y) THEN y ELSE x

Ceil(x) == -((-x[1]) \div x[2])

Floor(x) == x[1] \div x[2]

\* the count rounded down instead of up
CountOfTruncated(angle, R, scale) ==
    Floor(RMax(RMax(RMul(angle, RInv(SegAngle)),
                    RMul(RMul(R, angle), RInv(RMul(SegFrac, scale)))),
               <<4, 1>>))

\* count_a, count_l, their maximum, at least 4, rounded up
CountOf(angle, R, scale) ==
    Ceil(RMax(RMax(RMul(angle, RInv(SegAngle)),
                   RMul(RMul(R, angle), RInv(RMul(SegFrac, scale)))),
              <<4, 1>>))

\* the number of samples, from the angle and the radius as quantities (the
\* angle to 1/FP, the radius to 1/RoundDen)
FacetCount(angle, R, scale) ==
    CountOf(Rat(AngleFP(angle), FP), Rat(FScaled(R, RoundDen), RoundDen), scale)

\* np.linspace(0, stop, count), in FP units
LinspaceTo(stop, count) == [k \in 1..count |-> ((k - 1) * stop) \div (count - 1)]

Linspace(angle, count) == LinspaceTo(AngleFP(angle), count)

\* center + R * cos(t) * V1 + R * sin(t) * V2, coordinate i
SampleCoord(center, R, V1, V2, cos_t, sin_t, i) ==
    FAdd(FAdd(center[i], FMul(FMul(R, cos_t), SVComp(V1, i))),
         FMul(FMul(R, sin_t), SVComp(V2, i)))

SamplePoint(center, R, V1, V2, cos_t, sin_t) ==
    Map1(LAMBDA i : SampleCoord(center, R, V1, V2, cos_t, sin_t, i), <<1, 2, 3>>)

\* discrete[[0, -1]]: the samples at t = 0 and t = angle
SampleEnds(center, R, V1, V2, angle) ==
    Map2(LAMBDA cos_t, sin_t : SamplePoint(center, R, V1, V2, cos_t, sin_t),
         <<F1, AngleCos(angle)>>, <<F0, AngleSin(angle)>>)

\* one matching end is enough: .any() for .all()
ArcOkAny(points, ends) ==
    \E i \in 1..2 : FLess(VNorm(VSub(points[2 * i - 1], ends[i])), TolMerge)

\* (arc_dist < tol.merge).all(), arc_dist the distances points[[0, -1]] - ends
ArcOk(points, ends) ==
    \A i \in 1..2 : FLess(VNorm(VSub(points[2 * i - 1], ends[i])), TolMerge)

\* x[0:(3 - two_dimensional)]
Columns(x, two_dimensional) == SubSeq(x, 1, 3 - (IF two_dimensional THEN 1 ELSE 0))

\* The polyline is returned as its sample parameters t, the number of
\* coordinates of a point, and its first and last points.
\* discretize_arc from the endpoint check on
DiscretizeChecked(two_dimensional, points, close, t, ends) ==
    IF ~close /\ ~ArcOk(points, ends)
    THEN [err |-> DivergenceError, result |-> <<>>]
    ELSE [err |-> NoError,
          result |-> [t |-> t,
                      dim |-> Len(Columns(ends[1], two_dimensional)),
                      first |-> Columns(ends[1], two_dimensional),
                      last |-> Columns(ends[2], two_dimensional)]]

\* discretize_arc from the in-plane basis on
DiscretizeInBasis(two_dimensional, points, close, center, R, angle, count, V1, V2) ==
    DiscretizeChecked(two_dimensional, points, close, Linspace(angle, count),
        SampleEnds(center, R, V1, V2, angle))

\* unitize(np.cross(-N, V1))
BasisV2(N, V1) == Unitize(SVCross(SVNeg(N), V1))

\* discretize_arc from V1 on
DiscretizeFromV1(two_dimensional, points, close, scale, center, R, N, angle, V1) ==
    DiscretizeInBasis(two_dimensional, points, close, center, R, angle,
        FacetCount(angle, R, scale), V1, BasisV2(N, V1))

\* discretize_arc from the (possibly overridden) span on
DiscretizeSpan(two_dimensional, points, close, scale, center, R, N, angle) ==
    DiscretizeFromV1(two_dimensional, points, close, scale, center, R, N, angle,
        Unitize(Plain(VSub(points[1], center))))

\* the solver's error swallowed: an empty polyline is returned
DiscretizeSolvedRecovering(two_dimensional, points, close, scale, center_info) ==
    IF center_info.err # NoError
    THEN [err |-> NoError, result |-> <<>>]
    ELSE DiscretizeSpan(two_dimensional, points, close, scale,
             center_info.result.center, center_info.result.radius,
             center_info.result.normal,
             IF close THEN TwoPi ELSE center_info.result.span)

\* discretize_arc from the answer of arc_center on
DiscretizeSolved(two_dimensional, points, close, scale, center_info) ==
    IF center_info.err # NoError
    THEN [err |-> center_info.err, result |-> <<>>]
    ELSE DiscretizeSpan(two_dimensional, points, close, scale,
             center_info.result.center, center_info.result.radius,
             center_info.result.normal,
             IF close THEN TwoPi ELSE center_info.result.span)

DiscretizePoints(td, close, scale) ==
    DiscretizeSolved(td.is_2D, td.points, close, scale, ArcCenter(td.points))

DiscretizeArc(points, close, scale) ==
    DiscretizePoints(ThreeDimensionalize(points), close, scale)

(***************************************************************************)
(* arc_tangents, arc_offset                                                *)
(***************************************************************************)
UnpackError == "too many values to unpack (expected 4)"

TypeError == "unsupported operand type(s)"

\* center, R, N, angle = arc_center(points): unpacking a dict unpacks its keys
\* and needs as many keys as names
Unpack4(dict) ==
    IF Cardinality(DOMAIN dict) # 4
    THEN [err |-> UnpackError, names |-> {}]
    ELSE [err |-> NoError, names |-> DOMAIN dict]

\* the rest of either function, from the answer of arc_center on
Unpacked(info, unpacked) ==
    IF unpacked.err # NoError THEN [err |-> unpacked.err, result |-> <<>>]
    ELSE \* points - center, with center bound to a key of the dict
         [err |-> TypeError, result |-> <<>>]

Solved(info) ==
    IF info.err # NoError THEN [err |-> info.err, result |-> <<>>]
    ELSE Unpacked(info, Unpack4(info.result))

ArcTangents(points) == Solved(ArcCenter(ThreeDimensionalize(points).points))

ArcOffset(points, distance) == Solved(ArcCenter(ThreeDimensionalize(points).points))

(***************************************************************************)
(* angles_to_threepoint                                                    *)
(***************************************************************************)
BroadcastError == "operands could not be broadcast together"

\* (cos, sin) of an arctan2 angle, up to a positive factor
PolarDir(p) == IF p.x = F0 /\ p.y = F0 THEN <<F1, F0>> ELSE <<p.x, p.y>>

CrossSign(d, e) == FSgn(FSub(FMul(d[1], e[2]), FMul(d[2], e[1])))

\* d0 / |d0| + d1 / |d1|, times |d0|
Bisector(d0, d1) == VAdd(d0, VScale(FSqrt(FDiv(VNorm2(d0), VNorm2(d1))), d1))

\* the direction of (arctan2(lo) + arctan2(hi)) / 2, for arctan2(lo) < arctan2(hi):
\* the bisector m when hi is less than half a turn ahead of lo, its opposite
\* when more, lo turned by a quarter when exactly half a turn
HalfSumFrom(lo, hi, cr, m) ==
    IF cr > 0 THEN m
    ELSE IF cr < 0 THEN VNeg(m)
    ELSE <<FNeg(lo[2]), lo[1]>>

HalfSumOrdered(lo, hi) == HalfSumFrom(lo, hi, CrossSign(lo, hi), Bisector(lo, hi))

\* c tells which of d0, d1 has the smaller arctan2
HalfSumBy(d0, d1, c) ==
    IF c = 0 THEN d0
    ELSE HalfSumOrdered(IF c < 0 THEN d0 ELSE d1, IF c < 0 THEN d1 ELSE d0)

HalfSum(d0, d1) == HalfSumBy(d0, d1, AtanCmp(Arctan2(d0[2], d0[1]), Arctan2(d1[2], d1[1])))

\* beta + pi * T, as an arctan2 value and full turns
MeanTurned(beta, T) ==
    IF T % 2 = 0
    THEN [x |-> beta[1], y |-> beta[2], turns |-> T \div 2]
    ELSE [x |-> FNeg(beta[1]), y |-> FNeg(beta[2]),
          turns |-> (T - 1) \div 2 + (IF Sector(beta[1], beta[2]) >= 2 THEN 1 ELSE 0)]

\* np.mean of two arctan2 angles: half their sum
PolarMean(p, r) == MeanTurned(HalfSum(PolarDir(p), PolarDir(r)), p.turns + r.turns)

\* what "angles[1] += np.pi * 2" leaves in the caller's pair
AnglesAfter(angles) ==
    IF PolarLess(angles[2], angles[1])
    THEN <<angles[1], AddTurns(angles[2], 1)>>
    ELSE angles

\* a row of np.column_stack((np.cos(angles), np.sin(angles))) * radius
PlanarRow(angle, radius) ==
    VScale(FDiv(radius, VNorm(PolarDir(angle))), PolarDir(angle))

\* np.array([angles[0], np.mean(angles), angles[1]])
ThreeAngles(a) == <<a[1], PolarMean(a[1], a[2]), a[2]>>

\* the circle left at the origin: planar without the center
PlanarUncentered(angles, center, radius) ==
    Map1(LAMBDA angle : PlanarRow(angle, radius), angles)

\* planar + center
Planar(angles, center, radius) ==
    Map1(LAMBDA angle : VAdd(PlanarRow(angle, radius), center), angles)

\* angles_to_threepoint once the pair has been put in order; a is the pair as
\* the caller now holds it
ThreepointOrdered(a, center, radius) ==
    IF Len(center) # 2
    THEN [err |-> BroadcastError, result |-> <<>>, angles |-> a]
    ELSE [err |-> NoError, result |-> Planar(ThreeAngles(a), center, radius),
          angles |-> a]

AnglesToThreepoint(angles, center, radius) ==
    ThreepointOrdered(AnglesAfter(angles), center, radius)

(***************************************************************************)
(* Calls.  A caller holds a point array and calls one of the operations on *)
(* it; or it solves the arc, passes the descriptor's angle pair, centre    *)
(* and radius to angles_to_threepoint, and solves the three points it gets *)
(* back.  before / after are the arguments of the last call as passed and  *)
(* as the caller finds them once the call has returned or raised.          *)
(***************************************************************************)
VARIABLES pc, points, op, before, after, err, result, arc

vars == <<pc, points, op, before, after, err, result, arc>>

\* coordinates of the input points: 0..Max2 in the plane, the corners of the
\* unit cube in space
Max2 == 2

Cube == {0, 1}

Scales == {1, 10}

Distances == {-1, 2}

Pt2(x, y) == <<FI(x), FI(y)>>

Pt3(x, y, z) == <<FI(x), FI(y), FI(z)>>

Grid2 == {Pt2(x, y) : x \in 0..Max2, y \in 0..Max2}

Grid3 == {Pt3(x, y, z) : x \in Cube, y \in Cube, z \in Cube}

PointSets ==
    {<<a, b, c>> : a \in Grid2, b \in Grid2, c \in Grid2}
        \cup {<<a, b, c>> : a \in Grid3, b \in Grid3, c \in Grid3}

None == <<>>

Init ==
    /\ pc = "start"
    /\ points \in PointSets
    /\ op = "none"
    /\ before = None
    /\ after = None
    /\ err = NoError
    /\ result = None
    /\ arc = None

\* the call returns r.result or raises r.err
Return(r) ==
    /\ err' = r.err
    /\ result' = r.result

\* arc_center on the caller's point array
CallArcCenter ==
    /\ pc \in {"start", "rebuilt"}
    /\ Return(ArcCenter(points))
    /\ arc' = IF pc = "start" THEN result' ELSE arc
    /\ pc' = IF pc = "rebuilt" THEN "resolved"
             ELSE IF err' = NoError THEN "solved" ELSE "done"
    /\ op' = "arc_center"
    /\ before' = [points |-> points]
    /\ after' = [points |-> points]
    /\ UNCHANGED points

CallDiscretizeArc ==
    /\ pc = "start"
    /\ \E close \in BOOLEAN, scale \in Scales :
          /\ Return(DiscretizeArc(points, close, <<scale, 1>>))
          /\ before' = [points |-> points, close |-> close, scale |-> scale]
          /\ after' = [points |-> points, close |-> close, scale |-> scale]
    /\ op' = "discretize_arc"
    /\ pc' = "done"
    /\ UNCHANGED <<points, arc>>

CallArcTangents ==
    /\ pc = "start"
    /\ Return(ArcTangents(points))
    /\ op' = "arc_tangents"
    /\ before' = [points |-> points]
    /\ after' = [points |-> points]
    /\ pc' = "done"
    /\ UNCHANGED <<points, arc>>

CallArcOffset ==
    /\ pc = "start"
    /\ \E distance \in Distances :
          /\ Return(ArcOffset(points, FI(distance)))
          /\ before' = [points |-> points, distance |-> distance]
          /\ after' = [points |-> points, distance |-> distance]
    /\ op' = "arc_offset"
    /\ pc' = "done"
    /\ UNCHANGED <<points, arc>>

\* the call returns r.result or raises r.err, and leaves r.angles in the pair
\* it was passed, which is the descriptor's own array
ReturnThreepoint(r) ==
    /\ Return(r)
    /\ after' = [angles |-> r.angles, center |-> arc.center, radius |-> arc.radius]
    /\ arc' = [arc EXCEPT !.angles = r.angles]

\* angles_to_threepoint(arc['angles'], arc['center'], arc['radius']); the
\* caller keeps the three points it gets back as its point array
CallAnglesToThreepoint ==
    /\ pc = "solved"
    /\ ReturnThreepoint(AnglesToThreepoint(arc.angles, arc.center, arc.radius))
    /\ pc' = IF err' = NoError THEN "rebuilt" ELSE "done"
    /\ points' = IF err' = NoError THEN result' ELSE points
    /\ op' = "angles_to_threepoint"
    /\ before' = [angles |-> arc.angles, center |-> arc.center, radius |-> arc.radius]

Next ==
    \/ CallArcCenter
    \/ CallDiscretizeArc
    \/ CallArcTangents
    \/ CallArcOffset
    \/ CallAnglesToThreepoint

Spec == Init /\ [][Next]_vars
(***************************************************************************)
(* Vocabulary of the properties                                            *)
(***************************************************************************)
\* the three rows lie on one line (two equal rows included)
CollinearRows(p) == VZero(VCross(VSub(p[2], p[1]), VSub(p[3], p[2])))

Collinear(pts) == CollinearRows(ThreeDimensionalize(pts).points)

\* a center with a zero z when it has two coordinates
Center3(center) == IF Len(center) = 2 THEN Append(center, F0) ELSE center

\* every row of pts is at distance radius from center
OnCircle(pts, center, radius) ==
    \A i \in 1..Len(pts) : VNorm2(VSub(pts[i], center)) = FMul(radius, radius)

\* the functions that start by solving the arc
Solvers == {"arc_center", "discretize_arc", "arc_tangents", "arc_offset"}

\* the span a call of discretize_arc works with, given the solver's answer
SpanUsed(info, close) == IF close THEN TwoPi ELSE info.span

\* the first and last samples of discretize_arc(pts3, close), from the solver's
\* answer info
EndsFrom(pts3, close, info, V1) ==
    SampleEnds(info.center, info.radius, V1, BasisV2(info.normal, V1),
               SpanUsed(info, close))

EndsOf(pts3, close, info) ==
    EndsFrom(pts3, close, info, Unitize(Plain(VSub(pts3[1], info.center))))

\* a is within the merge tolerance of b
Within(a, b) == FLess(VNorm(VSub(a, b)), TolMerge)

\* the angle of p around center, measured from V1 towards V2, in [0, 2*pi)
FrameAngle(p, center, V1, V2) ==
    MkAngle(SVDot(Unitize(Plain(VSub(p, center))), V1),
            FSgn(VDot(VSub(p, center), V2.v)) < 0)

\* atan2 of the center-to-point vector's y and x, plus 2*pi
BoundAngle(p, center) ==
    AddTurns(Arctan2(FSub(p[2], center[2]), FSub(p[1], center[1])), 1)

(***************************************************************************)
(* Properties                                                              *)
(***************************************************************************)
\* C1: for three non-collinear points, in the plane or in space, arc_center
\* returns, and the center it returns is at one distance from all three
\* points, the radius it returns.
C1_Equidistant ==
    (op = "arc_center" /\ ~Collinear(before.points)) =>
        /\ err = NoError
        /\ OnCircle(before.points, result.center, result.radius)

\* arc_center has solved three points in space whose circle has an
\* irrational radius
C1_Witness ==
    /\ op = "arc_center"
    /\ err = NoError
    /\ Len(before.points[1]) = 3
    /\ ~IsRational(result.radius)

\* C2: on three collinear or non-distinct points arc_center raises the
\* degenerate-arc error and returns nothing, and so does each of
\* discretize_arc, arc_tangents and arc_offset on the same points.
C2_Degenerate ==
    (op \in Solvers /\ Collinear(before.points)) =>
        /\ err = DegenerateError
        /\ result = None

\* discretize_arc has been called with a repeated point and raised the
\* solver's error
C2_Witness ==
    /\ op = "discretize_arc"
    /\ before.points[1] = before.points[2]
    /\ err = DegenerateError

\* C3: discretize_arc raises the divergence error exactly when close is false
\* and the first sample is not within the merge tolerance of points[0] or the
\* last is not within it of points[2]; a polyline returned with close false
\* has both ends within the tolerance; with close true the error is never
\* raised.
C3_Divergence ==
    (op = "discretize_arc" /\ ~Collinear(before.points)) =>
        LET pts3 == ThreeDimensionalize(before.points).points
            ends == EndsOf(pts3, before.close, ArcCenter(pts3).result)
        IN  /\ (err = DivergenceError) <=>
                   /\ ~before.close
                   /\ ~(Within(pts3[1], ends[1]) /\ Within(pts3[3], ends[2]))
            /\ (err = NoError /\ ~before.close) =>
                   /\ Within(before.points[1], result.first)
                   /\ Within(before.points[3], result.last)
            /\ before.close => err = NoError

\* discretize_arc has raised the divergence error
C3_Witness ==
    /\ op = "discretize_arc"
    /\ ~before.close
    /\ err = DivergenceError

\* max(4, ceil(max(span / max_angle_step, radius * span / (max_chord_step * scale))))
ClaimedCount(span, radius, scale) ==
    Max(4, Ceil(RMax(RMul(span, RInv(SegAngle)),
                     RMul(RMul(radius, span), RInv(RMul(SegFrac, <<scale, 1>>))))))

C5_NoOtherErrorPath ==
    (op \in {"arc_tangents", "arc_offset"} /\ ~Collinear(before.points)) =>
        /\ err = NoError
        /\ Len(result) = 3
        /\ \A i \in 1..3 : Len(result[i]) = Len(before.points[1])

\* C6: after a call of any operation, returned or raised, every argument
\* holds the values it held before the call.
C6_Pure == op # "none" => after = before

\* C7: between consecutive samples of a returned polyline the angle is at
\* most seg_angle and the arc length at most seg_frac * scale.
C7_Resolution ==
    (op = "discretize_arc" /\ err = NoError) =>
        LET info == ArcCenter(ThreeDimensionalize(before.points).points).result
            radius == Rat(FScaled(info.radius, RoundDen), RoundDen)
        IN  \A k \in 1..(Len(result.t) - 1) :
                LET step == Rat(result.t[k + 1] - result.t[k], FP)
                IN  /\ ~RLess(SegAngle, step)
                    /\ ~RLess(RMul(SegFrac, <<before.scale, 1>>), RMul(radius, step))

\* C8: for an arc in the plane, angles_to_threepoint on the solver's angle
\* pair, center and radius returns three points of the solver's circle, and
\* arc_center on these three points returns the same center and radius.
C8_RoundTrip ==
    /\ (op = "angles_to_threepoint" /\ Len(before.center) = 2) =>
           /\ err = NoError
           /\ Len(result) = 3
           /\ OnCircle(result, arc.center, arc.radius)
    /\ pc = "resolved" =>
           /\ err = NoError
           /\ result.center = arc.center
           /\ result.radius = arc.radius

\* the three points rebuilt from a pair that was out of order have been
\* solved again, the middle one having an irrational coordinate
C8_Witness ==
    /\ pc = "resolved"
    /\ err = NoError
    /\ arc.angles[2].turns = 2
    /\ ~IsRational(points[2][1])
    /\ result.center # <<F0, F0>>

\* C9: the span is 2*pi - raw when raw exceeds the zero tolerance and the
\* edges' dot product is negative, raw otherwise, raw being the angle
\* between the center-to-points[0] and center-to-points[2] vectors; it lies
\* in (0, 2*pi], and turning from points[0] by the span about the center
\* passes points[1] and ends at points[2].
C9_Span ==
    (op = "arc_center" /\ err = NoError) =>
        LET pts3 == ThreeDimensionalize(before.points).points
            center == Center3(result.center)
            raw == Arccos(FDiv(VDot(VSub(pts3[1], center), VSub(pts3[3], center)),
                               FMul(result.radius, result.radius)))
            dot == VDot(VSub(pts3[2], pts3[1]), VSub(pts3[3], pts3[2]))
            V1 == Unitize(Plain(VSub(pts3[1], center)))
            V2 == BasisV2(result.normal, V1)
            middle == FrameAngle(pts3[2], center, V1, V2)
            end == FrameAngle(pts3[3], center, V1, V2)
        IN  /\ result.span = IF AngleLess(TolZero, raw) /\ FSgn(dot) < 0
                             THEN TwoPiMinus(raw) ELSE raw
            /\ AngleLess(Arccos(F1), result.span)
            /\ ~AngleLess(TwoPi, result.span)
            /\ AngleLess(Arccos(F1), middle)
            /\ AngleLess(middle, result.span)
            /\ end = result.span

\* C10: the angle pair holds the angles of points[0] and points[2]: the
\* smaller first when the angle of points[1] lies strictly between the two,
\* the larger first when it does not (equal to one of them included).
C10_AngleBounds ==
    (op = "arc_center" /\ err = NoError) =>
        LET pts3 == ThreeDimensionalize(before.points).points
            center == Center3(result.center)
            a0 == BoundAngle(pts3[1], center)
            a1 == BoundAngle(pts3[2], center)
            a2 == BoundAngle(pts3[3], center)
            lo == IF PolarLess(a2, a0) THEN a2 ELSE a0
            hi == IF PolarLess(a2, a0) THEN a0 ELSE a2
            between == PolarLess(lo, a1) /\ PolarLess(a1, hi)
        IN  /\ between =>
                   /\ PolarSame(result.angles[1], lo)
                   /\ PolarSame(result.angles[2], hi)
                   /\ PolarLess(result.angles[1], result.angles[2])
            /\ ~between =>
                   /\ PolarSame(result.angles[1], hi)
                   /\ PolarSame(result.angles[2], lo)
                   /\ ~PolarLess(result.angles[1], result.angles[2])

\* arc_center has returned a pair in descending order for points in the plane
C10_Witness ==
    /\ op = "arc_center"
    /\ err = NoError
    /\ Len(before.points[1]) = 2
    /\ PolarLess(result.angles[2], result.angles[1])

====
